---- MODULE Spec2Model ----
(***************************************************************************)
(* Model of src/hashtable.rs: HashTable<K, V>, a separate-chaining hash    *)
(* table with a fixed number of buckets, each a linked list of nodes.      *)
(*                                                                         *)
(* A Vec and a LinkedList are modelled as sequences (element 0 of a Vec is *)
(* element 1 of the sequence).  A u64 is modelled as four 16-bit limbs,    *)
(* most significant first, so that the cast `hash as usize` and the        *)
(* remainder are computed without leaving the range of the integers.       *)
(***************************************************************************)
EXTENDS Integers, Sequences, FiniteSets, TLC

\* ---------------------------------------------------------------- bounds
\* The keys given to the table are 1..MaxKey (K = i32 in the tests).
MaxKey == 3

Keys == 1..MaxKey

\* The values given to insert with a key: the two the tests pair a key with,
\* k * 10 + 1 and i * 2 + 1 (V = i32 in the tests; the table never looks
\* into a value).
Values(key) == {key * 10 + 1, key * 2 + 1}

\* ---------------------------------------------------------------- state
VARIABLES
    ht,         \* the HashTable: [table |-> Vec<Bucket>, count |-> usize]
    hasher,     \* what DefaultHasher yields for each key (a u64 per key)
    usizeBits,  \* the width of usize on the target: 32 or 64
    last,       \* the last call made on the table: its arguments, what it
                \* returned, the table as it was when the call was made and
                \* the search the call made in it
    pairs,      \* the (key, value) pairs given to insert, latest value per key
    arrivals    \* per hash value, the keys with that hash in the order in
                \* which each was first given to insert

vars == <<ht, hasher, usizeBits, last, pairs, arrivals>>

\* ---------------------------------------------------------------- types
DEFAULT_CAPACITY == 16

LimbBase == 65536

\* The i-th u64 the hasher may produce, as limbs.  The upper 32 bits, which
\* a 32-bit cast drops, are not zero, and different samples select different
\* buckets (19 * i % 16 differs for i in 1..5).
HashSample(i) == <<i, 65535, 65535 - i, 19 * i>>

\* What the hasher yields for each key.  The table uses a hash only to select
\* a bucket, so hash functions are drawn up to a renaming of their values:
\* key 1 gets the first sample and every further key gets a sample of a
\* smaller key or the first one not yet used.  Every way the keys can share
\* or not share hashes is among them: all keys colliding, none, and all
\* between.
Hashers ==
    LET Labels == { h \in [Keys -> Keys] :
                      /\ h[1] = 1
                      /\ \A k \in Keys \ {1} :
                            \E j \in 1..(k - 1) : h[k] <= h[j] + 1 }
    IN  { [k \in Keys |-> HashSample(h[k])] : h \in Labels }

UsizeWidths == {32, 64}

BucketNode(key, value) == [key |-> key, value |-> value]

Bucket_default == [list |-> <<>>]

Some(v) == [tag |-> "Some", val |-> v]

None == [tag |-> "None"]

\* ---------------------------------------------------------------- helpers
\* Variant of find: only the node at position i is compared.
find_front_only(list, key, i) ==
    IF i <= Len(list) /\ list[i].key = key THEN i ELSE 0

\* Iterator::find over a list: the position of the first node whose key is
\* `key`, or 0 when there is none.
RECURSIVE find(_, _, _)
find(list, key, i) ==
    IF i > Len(list) THEN 0
    ELSE IF list[i].key = key THEN i
    ELSE find(list, key, i + 1)

\* Variant of the cast: a 32-bit target keeps the upper 32 bits.
as_usize_keeps_upper(hash, bits) ==
    IF bits = 64 THEN hash ELSE SubSeq(hash, 1, 2)

\* `hash as usize`: the identity on a 64-bit target, the low 32 bits on a
\* 32-bit target.
as_usize(hash, bits) ==
    IF bits = 64 THEN hash ELSE SubSeq(hash, 3, 4)

\* limbs % n, most significant limb first.
RECURSIVE rem(_, _, _)
rem(limbs, n, i) ==
    IF i = 0 THEN 0
    ELSE (rem(limbs, n, i - 1) * LimbBase + limbs[i]) % n

hash_for(key) == hasher[key]

nbuckets(self) == Len(self.table)

len(self) == self.count

\* `hash as usize % self.nbuckets()`, an index into the Vec (from 0).
pos_in_table(self, key) ==
    LET word == as_usize(hash_for(key), usizeBits)
    IN  rem(word, nbuckets(self), Len(word))

\* The number of nodes the list's iterator hands to find before find
\* returns: up to and including the first node whose key is `key`, or all.
RECURSIVE examined(_, _, _)
examined(list, key, i) ==
    IF i > Len(list) THEN 0
    ELSE IF list[i].key = key THEN 1
    ELSE 1 + examined(list, key, i + 1)

\* Variant of scan: the search runs through the buckets before the selected
\* one as well.
scan_from_first_bucket(self, key) ==
    LET pos == pos_in_table(self, key)
        earlier == UNION { {<<b, i>> : i \in 1..Len(self.table[b].list)} :
                           b \in 1..pos }
    IN  [bucket   |-> pos,
         examined |-> Cardinality(earlier)
                         + examined(self.table[pos + 1].list, key, 1)]

\* The search insert and get make for `key`: the bucket they select and the
\* number of its nodes they examine.
scan(self, key) ==
    LET pos == pos_in_table(self, key)
    IN  [bucket   |-> pos,
         examined |-> examined(self.table[pos + 1].list, key, 1)]

\* ---------------------------------------------------------------- methods
\* Variant of new: one bucket too many.
new_one_more_bucket ==
    [table |-> [i \in 1..(DEFAULT_CAPACITY + 1) |-> Bucket_default], count |-> 0]

new == [table |-> [i \in 1..DEFAULT_CAPACITY |-> Bucket_default], count |-> 0]

\* Variant of insert: the search accepts the first node of the bucket,
\* whatever its key.
insert_find_any(self, key, value) ==
    LET pos    == pos_in_table(self, key)
        bucket == self.table[pos + 1]
        at     == IF Len(bucket.list) > 0 THEN 1 ELSE 0
    IN  IF at # 0
        THEN [self EXCEPT !.table[pos + 1].list[at] = BucketNode(key, value)]
        ELSE [self EXCEPT
                !.table[pos + 1].list = <<BucketNode(key, value)>> \o bucket.list,
                !.count = self.count + 1]

\* Variant of insert: no search, the node is always pushed.
insert_always_push(self, key, value) ==
    LET pos    == pos_in_table(self, key)
        bucket == self.table[pos + 1]
    IN  [self EXCEPT
            !.table[pos + 1].list = <<BucketNode(key, value)>> \o bucket.list,
            !.count = self.count + 1]

\* Variant of insert: count is incremented in both branches.
insert_always_counts(self, key, value) ==
    LET pos    == pos_in_table(self, key)
        bucket == self.table[pos + 1]
        at     == find(bucket.list, key, 1)
    IN  IF at # 0
        THEN [self EXCEPT !.table[pos + 1].list[at] = BucketNode(key, value),
                          !.count = self.count + 1]
        ELSE [self EXCEPT
                !.table[pos + 1].list = <<BucketNode(key, value)>> \o bucket.list,
                !.count = self.count + 1]

\* Variant of insert: a push into a bucket that is not empty doubles the Vec.
insert_grows_table(self, key, value) ==
    LET pos    == pos_in_table(self, key)
        bucket == self.table[pos + 1]
        at     == find(bucket.list, key, 1)
        more   == IF Len(bucket.list) > 0
                  THEN [i \in 1..Len(self.table) |-> Bucket_default]
                  ELSE <<>>
    IN  IF at # 0
        THEN [self EXCEPT !.table[pos + 1].list[at] = BucketNode(key, value)]
        ELSE [table |-> [self.table EXCEPT
                            ![pos + 1].list = <<BucketNode(key, value)>> \o bucket.list]
                        \o more,
              count |-> self.count + 1]

\* Variant of insert: a push replaces the bucket's list by the new node.
insert_evicts_bucket(self, key, value) ==
    LET pos    == pos_in_table(self, key)
        bucket == self.table[pos + 1]
        at     == find(bucket.list, key, 1)
    IN  IF at # 0
        THEN [self EXCEPT !.table[pos + 1].list[at] = BucketNode(key, value)]
        ELSE [self EXCEPT
                !.table[pos + 1].list = <<BucketNode(key, value)>>,
                !.count = self.count + 1]

\* Variant of insert: a found key is written over the front node of the
\* bucket instead of over the node found.
insert_overwrites_front(self, key, value) ==
    LET pos    == pos_in_table(self, key)
        bucket == self.table[pos + 1]
        at     == find(bucket.list, key, 1)
    IN  IF at # 0
        THEN [self EXCEPT !.table[pos + 1].list[1] = BucketNode(key, value)]
        ELSE [self EXCEPT
                !.table[pos + 1].list = <<BucketNode(key, value)>> \o bucket.list,
                !.count = self.count + 1]

\* Variant of insert: the search compares values instead of keys.
insert_compares_values(self, key, value) ==
    LET pos    == pos_in_table(self, key)
        bucket == self.table[pos + 1]
        same   == {i \in 1..Len(bucket.list) : bucket.list[i].value = value}
        at     == IF same = {} THEN 0 ELSE CHOOSE i \in same : \A j \in same : i <= j
    IN  IF at # 0
        THEN [self EXCEPT !.table[pos + 1].list[at] = BucketNode(key, value)]
        ELSE [self EXCEPT
                !.table[pos + 1].list = <<BucketNode(key, value)>> \o bucket.list,
                !.count = self.count + 1]

\* Variant of insert: a push leaves count as it was.
insert_forgets_count(self, key, value) ==
    LET pos    == pos_in_table(self, key)
        bucket == self.table[pos + 1]
        at     == find(bucket.list, key, 1)
    IN  IF at # 0
        THEN [self EXCEPT !.table[pos + 1].list[at] = BucketNode(key, value)]
        ELSE [self EXCEPT
                !.table[pos + 1].list = <<BucketNode(key, value)>> \o bucket.list]

\* Variant of insert: a new node is pushed at the back of the list.
insert_pushes_back(self, key, value) ==
    LET pos    == pos_in_table(self, key)
        bucket == self.table[pos + 1]
        at     == find(bucket.list, key, 1)
    IN  IF at # 0
        THEN [self EXCEPT !.table[pos + 1].list[at] = BucketNode(key, value)]
        ELSE [self EXCEPT
                !.table[pos + 1].list = Append(bucket.list, BucketNode(key, value)),
                !.count = self.count + 1]

insert(self, key, value) ==
    LET pos    == pos_in_table(self, key)
        bucket == self.table[pos + 1]
        at     == find(bucket.list, key, 1)
    IN  IF at # 0
        THEN [self EXCEPT !.table[pos + 1].list[at] = BucketNode(key, value)]
        ELSE [self EXCEPT
                !.table[pos + 1].list = <<BucketNode(key, value)>> \o bucket.list,
                !.count = self.count + 1]

\* Variant of get: the search accepts the first node of the bucket, whatever
\* its key.
get_ignores_key(self, key) ==
    LET pos    == pos_in_table(self, key)
        bucket == self.table[pos + 1]
        at     == IF Len(bucket.list) > 0 THEN 1 ELSE 0
    IN  IF at # 0 THEN Some(bucket.list[at].value) ELSE None

\* Variant of get: the bucket is selected by the upper half of the hash.
get_upper_half(self, key) ==
    LET pos    == rem(SubSeq(hash_for(key), 1, 2), nbuckets(self), 2)
        bucket == self.table[pos + 1]
        at     == find(bucket.list, key, 1)
    IN  IF at # 0 THEN Some(bucket.list[at].value) ELSE None

get(self, key) ==
    LET pos    == pos_in_table(self, key)
        bucket == self.table[pos + 1]
        at     == find(bucket.list, key, 1)
    IN  IF at # 0 THEN Some(bucket.list[at].value) ELSE None

\* Option::expect: the value, or a panic with the message.
expect(opt, msg) ==
    IF opt.tag = "Some"
    THEN [tag |-> "Ref", val |-> opt.val]
    ELSE [tag |-> "Panic", msg |-> msg]

\* Variant of index: an absent key yields a default value instead of a panic.
index_or_default(self, key) ==
    LET opt == get(self, key)
    IN  IF opt.tag = "Some" THEN [tag |-> "Ref", val |-> opt.val]
        ELSE [tag |-> "Ref", val |-> 0]

index(self, key) == expect(get(self, key), "entry not found")

\* ---------------------------------------------------------------- actions
\* A panic ends the run: no call follows it.
Panicked == last.op = "index" /\ last.ret.tag = "Panic"

Init ==
    /\ ht = new
    /\ hasher \in Hashers
    /\ usizeBits \in UsizeWidths
    /\ last = [op |-> "new", before |-> new]
    /\ pairs = <<>>
    /\ arrivals = [h \in {hasher[k] : k \in Keys} |-> <<>>]

Insert(key, value) ==
    /\ ~Panicked
    /\ ht' = insert(ht, key, value)
    /\ last' = [op |-> "insert", key |-> key, value |-> value, before |-> ht,
                scan |-> scan(ht, key)]
    /\ pairs' = (key :> value) @@ pairs
    /\ arrivals' = IF key \in DOMAIN pairs THEN arrivals
                   ELSE [arrivals EXCEPT ![hash_for(key)] = Append(@, key)]
    /\ UNCHANGED <<hasher, usizeBits>>

\* Variant of get's call: a hit moves the node found to the front of its
\* bucket.
GetCall_move_to_front(key) ==
    LET pos  == pos_in_table(ht, key)
        list == ht.table[pos + 1].list
        at   == find(list, key, 1)
    IN  /\ ~Panicked
        /\ last' = [op |-> "get", key |-> key, ret |-> get(ht, key),
                    before |-> ht, scan |-> scan(ht, key)]
        /\ ht' = IF at = 0 THEN ht
                 ELSE [ht EXCEPT !.table[pos + 1].list =
                          <<list[at]>> \o SubSeq(list, 1, at - 1)
                                       \o SubSeq(list, at + 1, Len(list))]
        /\ UNCHANGED <<hasher, usizeBits, pairs, arrivals>>

GetCall(key) ==
    /\ ~Panicked
    /\ last' = [op |-> "get", key |-> key, ret |-> get(ht, key), before |-> ht,
                scan |-> scan(ht, key)]
    /\ UNCHANGED <<ht, hasher, usizeBits, pairs, arrivals>>

IndexCall(key) ==
    /\ ~Panicked
    /\ last' = [op |-> "index", key |-> key, ret |-> index(ht, key),
                before |-> ht, scan |-> scan(ht, key)]
    /\ UNCHANGED <<ht, hasher, usizeBits, pairs, arrivals>>

LenCall ==
    /\ ~Panicked
    /\ last' = [op |-> "len", ret |-> len(ht), before |-> ht]
    /\ UNCHANGED <<ht, hasher, usizeBits, pairs, arrivals>>

NbucketsCall ==
    /\ ~Panicked
    /\ last' = [op |-> "nbuckets", ret |-> nbuckets(ht), before |-> ht]
    /\ UNCHANGED <<ht, hasher, usizeBits, pairs, arrivals>>

Next ==
    \/ \E key \in Keys : \E value \in Values(key) : Insert(key, value)
    \/ \E key \in Keys : GetCall(key)
    \/ \E key \in Keys : IndexCall(key)
    \/ LenCall
    \/ NbucketsCall

Spec == Init /\ [][Next]_vars

\* ------------------------------------------------- the bucket index alone
\* The calls on one key, for hashes over the whole range of u64: limbs at
\* and next to the ends of their range, with the lowest limb around a
\* multiple of the bucket count.
HighLimbs == {0, 1, 65535}

LowLimbs == {0, 15, 16, 65535}

U64Samples == HighLimbs \X HighLimbs \X HighLimbs \X LowLimbs

InitCast ==
    /\ ht = new
    /\ hasher \in {[k \in Keys |-> h] : h \in U64Samples}
    /\ usizeBits \in UsizeWidths
    /\ last = [op |-> "new", before |-> new]
    /\ pairs = <<>>
    /\ arrivals = [h \in {hasher[k] : k \in Keys} |-> <<>>]

NextCast ==
    \/ \E value \in Values(1) : Insert(1, value)
    \/ GetCall(1)
    \/ IndexCall(1)

SpecCast == InitCast /\ [][NextCast]_vars

\* ---------------------------------------------------------------- claims
Ref(v) == [tag |-> "Ref", val |-> v]

NotFound == [tag |-> "Panic", msg |-> "entry not found"]

Inserted == DOMAIN pairs

Reads == {"get", "index", "len", "nbuckets"}

\* The Vec position (from 1) of the bucket the code selects for `key`.
BucketOf(key) == pos_in_table(ht, key) + 1

\* The nodes of a list whose key is not `key`, in the list's order.
Others(list, key) == SelectSeq(list, LAMBDA node : node.key # key)

\* C1: every key given to insert is bound, by get and by the indexing
\* lookup, to the value it was last inserted with, whatever other keys were
\* inserted afterwards, colliding or not; a get or indexing call made on such
\* a key returned exactly that.
C1_RoundTrip ==
    /\ \A k \in Inserted :
          /\ get(ht, k) = Some(pairs[k])
          /\ index(ht, k) = Ref(pairs[k])
    /\ (last.op = "get" /\ last.key \in Inserted)
          => last.ret = Some(pairs[last.key])
    /\ (last.op = "index" /\ last.key \in Inserted)
          => last.ret = Ref(pairs[last.key])

\* A get of a key that hit, after a colliding key was inserted later (the
\* looked-up key is no longer at the front of its bucket).
C1_Witness ==
    /\ last.op = "get"
    /\ last.key \in Inserted
    /\ last.ret = Some(pairs[last.key])
    /\ Len(ht.table[BucketOf(last.key)].list) >= 2
    /\ ht.table[BucketOf(last.key)].list[1].key # last.key
    /\ Inserted = Keys

\* C2: an insert of a key that the table binds to a different value leaves
\* the new value, and no other, retrievable for the key by get and by the
\* indexing lookup, and leaves len() as it was before the call.
C2_Overwrite ==
    (/\ last.op = "insert"
     /\ get(last.before, last.key).tag = "Some"
     /\ get(last.before, last.key).val # last.value)
    => (/\ get(ht, last.key) = Some(last.value)
        /\ index(ht, last.key) = Ref(last.value)
        /\ len(ht) = len(last.before)
        /\ \A b \in 1..Len(ht.table) :
              \A i \in 1..Len(ht.table[b].list) :
                 ht.table[b].list[i].key = last.key
                    => ht.table[b].list[i].value = last.value)

\* The state after an insert replaced a different value of a key that is not
\* at the front of its bucket.
C2_Witness ==
    /\ last.op = "insert"
    /\ get(last.before, last.key).tag = "Some"
    /\ get(last.before, last.key).val # last.value
    /\ get(ht, last.key) = Some(last.value)
    /\ ht.table[BucketOf(last.key)].list[1].key # last.key
    /\ len(ht) = len(last.before)

\* C3: get returns None for every key never given to insert, also when the
\* key selects a bucket that holds other keys, and no get call faults.
C3_Absence ==
    /\ \A k \in Keys \ Inserted : get(ht, k) = None
    /\ (last.op = "get" /\ last.key \notin Inserted) => last.ret = None
    /\ last.op = "get" => last.ret.tag \in {"Some", "None"}

\* A get that missed in a bucket holding two other keys.
C3_Witness ==
    /\ last.op = "get"
    /\ last.key \notin Inserted
    /\ last.ret = None
    /\ Len(ht.table[BucketOf(last.key)].list) >= 2

\* C4: len() is the number of distinct keys given to insert so far; an insert
\* of a key not yet present adds exactly 1 to it and an insert of a key
\* already present leaves it unchanged.
C4_LenCountsDistinctKeys ==
    /\ len(ht) = Cardinality(Inserted)
    /\ last.op = "len" => last.ret = Cardinality(Inserted)
    /\ last.op = "insert"
          => /\ get(last.before, last.key) = None
                   => len(ht) = len(last.before) + 1
             /\ get(last.before, last.key) # None
                   => len(ht) = len(last.before)

\* The state after an insert of a key already present, every key being
\* stored: len() stayed at the number of keys.
C4_Witness ==
    /\ last.op = "insert"
    /\ get(last.before, last.key) # None
    /\ Inserted = Keys
    /\ len(ht) = MaxKey
    /\ len(last.before) = MaxKey
    /\ \E b \in 1..Len(ht.table) : Len(ht.table[b].list) >= 2

\* C5: the indexing lookup returns v exactly when get returns Some(v) and
\* raises "entry not found" exactly when get returns None; on a table with no
\* entry it faults for every key; the fault leaves the table as it was.
C5_IndexIsGetOrFault ==
    /\ \A k \in Keys :
          LET found == get(ht, k)
              value == index(ht, k)
          IN  /\ found.tag \in {"Some", "None"}
              /\ found.tag = "Some" <=> value.tag = "Ref"
              /\ found.tag = "Some" => value = Ref(found.val)
              /\ found = None <=> value = NotFound
              /\ len(ht) = 0 => value = NotFound
    /\ last.op = "index"
          => LET found == get(last.before, last.key)
             IN  /\ found.tag = "Some" <=> last.ret.tag = "Ref"
                 /\ found.tag = "Some" => last.ret = Ref(found.val)
                 /\ found = None <=> last.ret = NotFound
                 /\ last.ret.tag = "Panic"
                       => (ht = last.before /\ last.ret = NotFound)

\* An indexing lookup that faulted on a key absent from a bucket holding
\* another key.
C5_Witness ==
    /\ last.op = "index"
    /\ last.ret = NotFound
    /\ get(ht, last.key) = None
    /\ Len(ht.table[BucketOf(last.key)].list) >= 1
    /\ ht = last.before

\* C6: as long as nothing has been inserted, the table is as new() built it:
\* len() is 0, nbuckets() is 16 = DEFAULT_CAPACITY, every bucket is empty and
\* get returns None for every key.
C6_InitialState ==
    Inserted = {}
       => /\ len(ht) = 0
          /\ nbuckets(ht) = 16
          /\ nbuckets(ht) = DEFAULT_CAPACITY
          /\ \A b \in 1..Len(ht.table) : ht.table[b].list = <<>>
          /\ \A k \in Keys : get(ht, k) = None
          /\ last.op = "len" => last.ret = 0
          /\ last.op = "nbuckets" => last.ret = 16
          /\ last.op = "get" => last.ret = None

\* nbuckets() called on the table new() returned.
C6_Witness ==
    /\ Inserted = {}
    /\ last.op = "nbuckets"
    /\ last.ret = 16
    /\ len(ht) = 0

\* C7: nbuckets() is 16 in every state, however many entries are stored.
C7_BucketCountFixed ==
    /\ nbuckets(ht) = 16
    /\ last.op = "nbuckets" => last.ret = 16

\* nbuckets() called when every key is stored and a bucket holds several.
C7_Witness ==
    /\ last.op = "nbuckets"
    /\ last.ret = 16
    /\ len(ht) = MaxKey
    /\ \E b \in 1..Len(ht.table) : Len(ht.table[b].list) >= 2

\* C8: get, the indexing lookup, len() and nbuckets() leave the buckets,
\* their order and count exactly as they were when the call was made.
C8_ReadsDoNotMutate ==
    last.op \in Reads => ht = last.before

\* A get that hit a node that is not at the front of its bucket.
C8_Witness ==
    /\ last.op = "get"
    /\ last.ret.tag = "Some"
    /\ Len(ht.table[BucketOf(last.key)].list) >= 2
    /\ ht.table[BucketOf(last.key)].list[1].key # last.key
    /\ ht = last.before

\* C9: no call removes an entry: every key for which get returned Some when
\* the call was made has get return Some after it, and len() is not smaller
\* after the call than before it (so both hold along every execution).
C9_NeverRemoved ==
    /\ \A k \in Keys :
          get(last.before, k).tag = "Some" => get(ht, k).tag = "Some"
    /\ len(ht) >= len(last.before)

\* The state after an insert of a new key into a bucket that held two keys.
C9_Witness ==
    /\ last.op = "insert"
    /\ get(last.before, last.key) = None
    /\ Len(last.before.table[BucketOf(last.key)].list) >= 2
    /\ \A k \in Keys : get(ht, k).tag = "Some"

\* C10: insert(k, v) leaves every bucket other than the one at index
\* hash(k) mod nbuckets() exactly as it was, and in that bucket every node
\* whose key is not k keeps its key, its value and its place relative to the
\* others; the bucket changes only by the node of k.
C10_InsertFrame ==
    last.op = "insert"
       => LET k   == last.key
              i   == pos_in_table(last.before, k) + 1
              was == last.before.table
          IN  /\ Len(ht.table) = Len(was)
              /\ \A j \in 1..Len(was) : j # i => ht.table[j] = was[j]
              /\ Others(ht.table[i].list, k) = Others(was[i].list, k)
              /\ Len(ht.table[i].list) \in {Len(was[i].list), Len(was[i].list) + 1}

\* The state after an insert replaced the middle node of a bucket of three.
C10_Witness ==
    /\ last.op = "insert"
    /\ get(last.before, last.key).tag = "Some"
    /\ get(last.before, last.key).val # last.value
    /\ Len(ht.table[BucketOf(last.key)].list) = 3
    /\ ht.table[BucketOf(last.key)].list[2].key = last.key

\* The places of the table: (bucket position, position in the bucket's list).
Places ==
    UNION { {<<b, i>> : i \in 1..Len(ht.table[b].list)} : b \in 1..Len(ht.table) }

NodeAt(p) == ht.table[p[1]].list[p[2]]

\* C11: no two nodes of the table, in one bucket or in two, have equal keys.
C11_KeyUniqueness ==
    \A p \in Places : \A q \in Places :
       NodeAt(p).key = NodeAt(q).key => p = q

\* The state after a key was inserted a second time, with another value, into
\* a bucket holding other keys too.
C11_Witness ==
    /\ last.op = "insert"
    /\ get(last.before, last.key).tag = "Some"
    /\ get(last.before, last.key).val # last.value
    /\ Len(ht.table[BucketOf(last.key)].list) >= 2
    /\ Cardinality(Places) = MaxKey

\* C12: every node stored in the bucket at position j has a key whose hash
\* selects j, and get, looking only where it computes the key's bucket to
\* be, finds that node; after insert(k, _) the node of k is in the bucket get
\* scans for k.
C12_Placement ==
    /\ \A p \in Places :
          /\ pos_in_table(ht, NodeAt(p).key) + 1 = p[1]
          /\ get(ht, NodeAt(p).key) = Some(NodeAt(p).value)
    /\ last.op = "insert"
          => /\ get(ht, last.key) = Some(last.value)
             /\ \E i \in 1..Len(ht.table[BucketOf(last.key)].list) :
                   ht.table[BucketOf(last.key)].list[i] =
                      BucketNode(last.key, last.value)
    /\ (last.op = "get" /\ last.ret.tag = "Some")
          => \E i \in 1..Len(ht.table[BucketOf(last.key)].list) :
                ht.table[BucketOf(last.key)].list[i] =
                   BucketNode(last.key, last.ret.val)

\* A get that hit, with nodes stored in two different buckets.
C12_Witness ==
    /\ last.op = "get"
    /\ last.ret.tag = "Some"
    /\ \E p \in Places : \E q \in Places : p[1] # q[1]
    /\ \E p \in Places : p[2] = 2

\* The u64 `h` modulo n, from its limbs.
U64Mod(h, n) ==
    LET m1 == h[1] % n
        m2 == (m1 * LimbBase + h[2]) % n
        m3 == (m2 * LimbBase + h[3]) % n
    IN  (m3 * LimbBase + h[4]) % n

\* C13: for every hash h the index insert and get use, (h as usize) %
\* nbuckets(), is h mod nbuckets() and lies in 0..nbuckets()-1, on a 64-bit
\* and on a 32-bit target; nbuckets() is not zero and the index is a position
\* of the bucket Vec; the node insert stores is in the bucket of that index
\* and get finds it there.
C13_BucketIndex ==
    /\ nbuckets(ht) # 0
    /\ \A k \in Keys :
          LET h == hash_for(k)
              i == pos_in_table(ht, k)
          IN  /\ i = U64Mod(h, nbuckets(ht))
              /\ i \in 0..(nbuckets(ht) - 1)
              /\ i + 1 \in DOMAIN ht.table
    /\ last.op = "insert"
          => LET j == U64Mod(hash_for(last.key), nbuckets(ht)) + 1
             IN  \E i \in 1..Len(ht.table[j].list) :
                    ht.table[j].list[i] = BucketNode(last.key, last.value)
    /\ (last.op = "get" /\ last.key \in Inserted)
          => last.ret = Some(pairs[last.key])

\* A get that hit on a 32-bit target for a hash whose upper 32 bits are all
\* ones and whose lower 32 bits are not.
C13_Witness ==
    /\ usizeBits = 32
    /\ hash_for(1)[1] = 65535
    /\ hash_for(1)[2] = 65535
    /\ hash_for(1)[3] = 1
    /\ hash_for(1)[4] = 15
    /\ last.op = "get"
    /\ last.ret.tag = "Some"

\* The abstract map the table is compared with: empty at first, and
\* insert(k, v) sets M[k] to v.  It is the variable `pairs`.
M == pairs

\* What the abstract map answers to a lookup of k.
MapGet(k) == IF k \in DOMAIN M THEN Some(M[k]) ELSE None

\* C14: the table refines the abstract map M for every hash function drawn,
\* also one sending all keys to one bucket: get(k) is Some(M[k]) for k in the
\* domain of M and None for every other key, len() is the size of the domain
\* of M, and every get and len() call returned what M answers.
C14_RefinesMap ==
    /\ \A k \in Keys : get(ht, k) = MapGet(k)
    /\ len(ht) = Cardinality(DOMAIN M)
    /\ last.op = "get" => last.ret = MapGet(last.key)
    /\ last.op = "len" => last.ret = Cardinality(DOMAIN M)

\* A get that missed, under a hash function sending all keys to one bucket,
\* in the bucket that holds all the other keys.
C14_Witness ==
    /\ \A k \in Keys : hash_for(k) = hash_for(1)
    /\ last.op = "get"
    /\ last.key \notin DOMAIN M
    /\ last.ret = None
    /\ Cardinality(DOMAIN M) = MaxKey - 1
    /\ Len(ht.table[BucketOf(last.key)].list) = MaxKey - 1

\* C15: count is the number of nodes stored, the sum of the lengths of the
\* lists of all buckets.
C15_CountIsTotalLength ==
    /\ ht.count = Cardinality(Places)
    /\ last.op = "len" => last.ret = Cardinality(Places)

\* len() called with nodes in two buckets, one of them holding two.
C15_Witness ==
    /\ last.op = "len"
    /\ last.ret = MaxKey
    /\ \E p \in Places : \E q \in Places : p[1] # q[1]
    /\ \E p \in Places : p[2] = 2

\* The keys of a list's nodes, in the list's order.
KeysOf(list) == [i \in 1..Len(list) |-> list[i].key]

Reverse(seq) == [i \in 1..Len(seq) |-> seq[Len(seq) + 1 - i]]

\* The nodes of a list whose key has the hash h, in the list's order.
WithHash(list, h) == SelectSeq(list, LAMBDA node : hash_for(node.key) = h)

\* C16: an insert of a key absent from its bucket puts the new node at the
\* front of the bucket's list, before the nodes that were there; an insert of
\* a key present replaces its node where it is, the list keeping its length
\* and every other node its position.  Hence the keys of a bucket are listed
\* latest first by the time each was first inserted.
C16_BucketOrder ==
    /\ last.op = "insert"
          => LET i   == pos_in_table(last.before, last.key) + 1
                 was == last.before.table[i].list
                 now == ht.table[i].list
                 new_node == BucketNode(last.key, last.value)
             IN  /\ get(last.before, last.key) = None
                      => now = <<new_node>> \o was
                 /\ get(last.before, last.key) # None
                      => /\ Len(now) = Len(was)
                         /\ KeysOf(now) = KeysOf(was)
                         /\ \A p \in 1..Len(was) :
                               now[p] = IF was[p].key = last.key
                                        THEN new_node ELSE was[p]
    /\ \A h \in DOMAIN arrivals :
          KeysOf(WithHash(ht.table[U64Mod(h, nbuckets(ht)) + 1].list, h))
             = Reverse(arrivals[h])

\* The state after an insert replaced the node at the back of a bucket that
\* holds every key.
C16_Witness ==
    /\ last.op = "insert"
    /\ get(last.before, last.key).tag = "Some"
    /\ get(last.before, last.key).val # last.value
    /\ Len(ht.table[BucketOf(last.key)].list) = MaxKey
    /\ ht.table[BucketOf(last.key)].list[MaxKey].key = last.key
    /\ arrivals[hash_for(last.key)][1] = last.key

Searches == {"insert", "get", "index"}

\* C17: every call of insert, get and the indexing lookup can be made on
\* every table reached and finishes: get with Some or None, the indexing
\* lookup with a value or, exactly for an absent key, the fault.  The call
\* searches the bucket its key selects and no other, and examines at most as
\* many nodes as that bucket held.  (Whether a call can be made depends on
\* the table alone, and every table reached is the table of a state that
\* new() or a len() call has just produced: the calls are tried there.)
C17_CallsComplete ==
    /\ last.op \in {"new", "len"}
          => \A k \in Keys :
                /\ ENABLED GetCall(k)
                /\ ENABLED IndexCall(k)
                /\ \A v \in Values(k) : ENABLED Insert(k, v)
    /\ last.op \in Searches
          => /\ last.scan.bucket
                   = U64Mod(hash_for(last.key), nbuckets(last.before))
             /\ last.scan.examined >= 0
             /\ last.scan.examined
                   <= Len(last.before.table[last.scan.bucket + 1].list)
    /\ last.op = "get" => last.ret.tag \in {"Some", "None"}
    /\ last.op = "index"
          => /\ last.ret.tag \in {"Ref", "Panic"}
             /\ last.ret.tag = "Panic" <=> get(last.before, last.key) = None

\* A get that hit the second and last node of its bucket, having examined
\* both, while another bucket held a node.
C17_Witness ==
    /\ last.op = "get"
    /\ last.ret.tag = "Some"
    /\ last.scan.examined = 2
    /\ Len(ht.table[last.scan.bucket + 1].list) = 2
    /\ \E p \in Places : \E q \in Places : p[1] # q[1]

====
